---------------------------- MODULE Spec2Model ----------------------------
(***************************************************************************)
(* Model of the mortgage calculation core of money-master                  *)
(* (src/src/lib/functions/mortgage.ts): getMonthlyMortgage,                *)
(* getTrueCostsOfHome and getPropertyTaxByState.                           *)
(*                                                                         *)
(* JavaScript numbers are IEEE-754 binary floating point.  They are        *)
(* modelled as binary floating point numbers with a mantissa of Prec bits  *)
(* (53 in JavaScript), round-to-nearest-even, with NaN and the infinities, *)
(* and an unbounded exponent: no input enumerated here comes near the      *)
(* exponent range of a double.  Negative zero is not distinguished from    *)
(* zero (=== does not distinguish them either).                            *)
(* Strings are sequences of one-character strings, so that parseFloat is   *)
(* a real parse.                                                           *)
(***************************************************************************)
EXTENDS Integers, Sequences, FiniteSets, TLC

VARIABLES propertyTaxRates, call, ret, earlier, form

vars == <<propertyTaxRates, call, ret, earlier, form>>

(***************************************************************************)
(* Bounds                                                                  *)
(***************************************************************************)
\* bits of mantissa of the modelled Number type
Prec == 14
\* largest loan term (years) enumerated
MaxTerm == 2

(***************************************************************************)
(* Number: IEEE-754 style values                                           *)
(*   [k |-> "fin", m, e]  the value m * 2^e, m = 0 (and e = 0) or          *)
(*                        2^(Prec-1) <= |m| < 2^Prec                       *)
(*   [k |-> "inf", m |-> +1 or -1], [k |-> "nan"]                          *)
(***************************************************************************)
NaN == [k |-> "nan", m |-> 0, e |-> 0]

Infinity(s) == [k |-> "inf", m |-> s, e |-> 0]

Fin(m, e) == [k |-> "fin", m |-> m, e |-> e]

Zero == Fin(0, 0)

IsNaN(a) == a.k = "nan"

IsFinite(a) == a.k = "fin"

Sgn(n) == IF n < 0 THEN -1 ELSE IF n > 0 THEN 1 ELSE 0

AbsInt(n) == IF n < 0 THEN -n ELSE n

RECURSIVE BitLen(_)
BitLen(n) == IF n = 0 THEN 0 ELSE 1 + BitLen(n \div 2)

\* k further bits of the binary expansion of r/d appended to q (long division)
RECURSIVE DivBits(_, _, _, _)
DivBits(q, r, d, k) ==
  IF k = 0 THEN <<q, r>>
  ELSE IF 2 * r >= d THEN DivBits(2 * q + 1, 2 * r - d, d, k - 1)
       ELSE DivBits(2 * q, 2 * r, d, k - 1)

\* a mantissa m that rounding carried up to 2^Prec is renormalised
Carry(s, m, e0) ==
  IF m = 2^Prec THEN Fin(s * 2^(Prec - 1), e0 - Prec + 2)
  ELSE Fin(s * m, e0 - Prec + 1)

\* round to nearest, ties to even: low holds the two bits below the mantissa
RoundsUp(low, sticky, odd) == low = 3 \/ (low = 2 /\ (sticky \/ odd))

\* qr = <<quotient of Prec + 2 bits, remainder>>
RoundBits(s, qr, e0) ==
  Carry(s,
        (qr[1] \div 4)
          + (IF RoundsUp(qr[1] % 4, qr[2] # 0, (qr[1] \div 4) % 2 = 1)
             THEN 1 ELSE 0),
        e0)

\* N1 and D1 have the same number of bits
Quotient(s, N1, D1, e0) ==
  IF N1 < D1
  THEN RoundBits(s, DivBits(1, 2 * N1 - D1, D1, Prec + 1), e0 - 1)
  ELSE RoundBits(s, DivBits(1, N1 - D1, D1, Prec + 1), e0)

AlignRat(s, N, D, e, ln, ld) ==
  IF ln > ld THEN Quotient(s, N, D * 2^(ln - ld), e + ln - ld)
  ELSE Quotient(s, N * 2^(ld - ln), D, e + ln - ld)

\* The Number nearest to s * (N / D) * 2^e (ties to even); N >= 0, D > 0.
RoundRat(s, N, D, e) ==
  IF N = 0 THEN Zero ELSE AlignRat(s, N, D, e, BitLen(N), BitLen(D))

\* The Number nearest to M * 2^e
RoundInt(M, e) == RoundRat(Sgn(M), AbsInt(M), 1, e)

\* an integer literal or integer-valued number
FromInt(n) == RoundInt(n, 0)

Neg(a) == IF IsNaN(a) THEN NaN ELSE [a EXCEPT !.m = -a.m]

Abs(a) == IF IsNaN(a) THEN NaN ELSE [a EXCEPT !.m = AbsInt(a.m)]

\* a * b
Mul(a, b) ==
  IF IsNaN(a) \/ IsNaN(b) THEN NaN
  ELSE IF a.k = "inf" \/ b.k = "inf"
       THEN IF a.m = 0 \/ b.m = 0 THEN NaN ELSE Infinity(Sgn(a.m) * Sgn(b.m))
  ELSE RoundRat(Sgn(a.m) * Sgn(b.m), AbsInt(a.m) * AbsInt(b.m), 1, a.e + b.e)

\* a / b
Div(a, b) ==
  IF IsNaN(a) \/ IsNaN(b) THEN NaN
  ELSE IF a.k = "inf"
       THEN IF b.k = "inf" THEN NaN
            ELSE Infinity(Sgn(a.m) * (IF b.m < 0 THEN -1 ELSE 1))
  ELSE IF b.k = "inf" THEN Zero
  ELSE IF b.m = 0
       THEN IF a.m = 0 THEN NaN ELSE Infinity(Sgn(a.m))
  ELSE RoundRat(Sgn(a.m) * Sgn(b.m), AbsInt(a.m), AbsInt(b.m), a.e - b.e)

\* al shifted right by sh bits, with one more bit that is set when the
\* bits shifted out were not all zero (sticky bit)
ShiftSticky(al, sh) ==
  IF sh >= Prec THEN 1
  ELSE 2 * (al \div 2^sh) + (IF al % 2^sh # 0 THEN 1 ELSE 0)

\* hi + lo for finite non-zero numbers with hi.e >= lo.e; beyond three
\* bits of distance lo is added under three guard bits and a sticky bit
AddAligned(hi, lo) ==
  IF hi.e - lo.e <= 3
  THEN RoundInt(hi.m * 2^(hi.e - lo.e) + lo.m, lo.e)
  ELSE RoundInt(16 * hi.m
                  + Sgn(lo.m) * ShiftSticky(AbsInt(lo.m), hi.e - lo.e - 3),
                hi.e - 4)

\* a + b
Add(a, b) ==
  IF IsNaN(a) \/ IsNaN(b) THEN NaN
  ELSE IF a.k = "inf"
       THEN IF b.k = "inf" /\ b.m # a.m THEN NaN ELSE a
  ELSE IF b.k = "inf" THEN b
  ELSE IF a.m = 0 THEN b
  ELSE IF b.m = 0 THEN a
  ELSE IF a.e >= b.e THEN AddAligned(a, b) ELSE AddAligned(b, a)

\* a - b
Sub(a, b) == Add(a, Neg(b))

IsNegative(d) == ~IsNaN(d) /\ d.m < 0

\* a < b and a > b (false when either is NaN)
Less(a, b) == ~IsNaN(a) /\ ~IsNaN(b) /\ IsNegative(Sub(a, b))

Greater(a, b) == Less(b, a)

\* a === b
StrictEq(a, b) == ~IsNaN(a) /\ ~IsNaN(b) /\ a = b


(***************************************************************************)
(* Strings and parseFloat                                                  *)
(***************************************************************************)
Digits == {"0", "1", "2", "3", "4", "5", "6", "7", "8", "9"}

DigitVal(c) ==
  CASE c = "0" -> 0 [] c = "1" -> 1 [] c = "2" -> 2 [] c = "3" -> 3
    [] c = "4" -> 4 [] c = "5" -> 5 [] c = "6" -> 6 [] c = "7" -> 7
    [] c = "8" -> 8 [] c = "9" -> 9

\* number of leading white space characters of str from position i
RECURSIVE SpaceRun(_, _)
SpaceRun(str, i) ==
  IF i <= Len(str) /\ str[i] = " " THEN 1 + SpaceRun(str, i + 1) ELSE 0

\* length of the run of decimal digits of str that starts at position i
RECURSIVE DigitRun(_, _)
DigitRun(str, i) ==
  IF i <= Len(str) /\ str[i] \in Digits THEN 1 + DigitRun(str, i + 1) ELSE 0

\* value of the digits str[i..j] read as a decimal integer
RECURSIVE DecimalValue(_, _, _)
DecimalValue(str, i, j) ==
  IF j < i THEN 0 ELSE 10 * DecimalValue(str, i, j - 1) + DigitVal(str[j])

\* the digits are at i0 .. i0+ni-1 and i0+ni+1 .. i0+ni+nf
ParseValue(str, sign, i0, ni, nf) ==
  IF ni + nf = 0 THEN NaN
  ELSE RoundRat(sign,
                DecimalValue(str, i0, i0 + ni - 1) * 10^nf
                  + DecimalValue(str, i0 + ni + 1, i0 + ni + nf),
                10^nf, 0)

ParseFraction(str, sign, i0, ni) ==
  IF i0 + ni <= Len(str) /\ str[i0 + ni] = "."
  THEN ParseValue(str, sign, i0, ni, DigitRun(str, i0 + ni + 1))
  ELSE ParseValue(str, sign, i0, ni, 0)

ParseSigned(str, ws) ==
  IF ws + 1 <= Len(str) /\ str[ws + 1] \in {"+", "-"}
  THEN ParseFraction(str, IF str[ws + 1] = "-" THEN -1 ELSE 1, ws + 2,
                     DigitRun(str, ws + 2))
  ELSE ParseFraction(str, 1, ws + 1, DigitRun(str, ws + 1))

\* parseFloat: the longest prefix (after white space) of the form
\* [+-] digits [. digits] with at least one digit, NaN when there is none.
\* Exponent parts and the literal Infinity are outside the strings
\* enumerated below.
parseFloat(str) == ParseSigned(str, SpaceRun(str, 1))

(***************************************************************************)
(* Math.pow for the exponents getMonthlyMortgage passes: a NaN or a        *)
(* non-negative integer number of payments.  The result is an              *)
(* approximation of the power (ECMAScript leaves the precision to the      *)
(* implementation), here by squaring and multiplying in the Number type.   *)
(***************************************************************************)
IsInteger(a) == IsFinite(a) /\ (a.e >= 0 \/ a.m % 2^(-a.e) = 0)

ToInt(a) == IF a.e >= 0 THEN a.m * 2^a.e ELSE a.m \div 2^(-a.e)

PowStep(b, n, h) == IF n % 2 = 1 THEN Mul(Mul(h, h), b) ELSE Mul(h, h)

RECURSIVE PowN(_, _)
PowN(b, n) == IF n = 1 THEN b ELSE PowStep(b, n, PowN(b, n \div 2))

Math_pow(base, exponent) ==
  CASE IsNaN(exponent) -> NaN
    [] IsInteger(exponent) /\ exponent.m = 0 -> FromInt(1)
    [] IsInteger(exponent) /\ exponent.m > 0 ->
         IF IsNaN(base) THEN NaN ELSE PowN(base, ToInt(exponent))

(***************************************************************************)
(* getMonthlyMortgage (mortgage.ts 25-54)                                  *)
(***************************************************************************)
\* line 37
MonthlyRate(interestRate) ==
  Div(Div(parseFloat(interestRate), FromInt(100)), FromInt(12))

\* lines 42 and 78
NumberOfPayments(loanTermYears) == Mul(loanTermYears, FromInt(12))

\* line 48
CompoundFactor(monthlyRate, numberOfPayments) ==
  Math_pow(Add(FromInt(1), monthlyRate), numberOfPayments)

\* line 49
MonthlyPayment(principal, x, monthlyRate) ==
  Div(Mul(Mul(principal, x), monthlyRate), Sub(x, FromInt(1)))

\* lines 48-53
PaymentFor(principal, monthlyRate, numberOfPayments) ==
  [monthlyPayment |->
     MonthlyPayment(principal, CompoundFactor(monthlyRate, numberOfPayments),
                    monthlyRate)]

getMonthlyMortgage(inputs) ==
  PaymentFor(inputs.principal, MonthlyRate(inputs.interestRate),
             NumberOfPayments(inputs.loanTermYears))

(***************************************************************************)
(* getTrueCostsOfHome (mortgage.ts 56-127)                                 *)
(***************************************************************************)
\* line 66: Number(loanTermYears); loanTermYears is already a number
\* (type Inputs, line 6), and Number of a number is that number
ToNumber(n) == n

\* the division by 12 of line 72 left out
MonthlyPmi_Yearly(principal, pmiRateNum) ==
  Div(Mul(principal, pmiRateNum), FromInt(100))

\* line 72
MonthlyPmi(principal, pmiRateNum) ==
  Div(Div(Mul(principal, pmiRateNum), FromInt(100)), FromInt(12))

\* line 75
AnnualInsurance(principal, insuranceRateNum) ==
  Mul(principal, Div(insuranceRateNum, FromInt(100)))

\* line 76
MonthlyInsurance(annualInsurance) == Div(annualInsurance, FromInt(12))

\* lines 88-90
LifetimeTotal(monthly, numberOfPayments) == Mul(monthly, numberOfPayments)

\* the subtraction of line 94 turned around
TotalInterest_Swapped(totalPrincipalAndInterest, principal) ==
  Sub(principal, totalPrincipalAndInterest)

\* line 94
TotalInterest(totalPrincipalAndInterest, principal) ==
  Sub(totalPrincipalAndInterest, principal)

\* line 96
YearlyPropertyTax(principal, propertyTaxRateNum) ==
  Div(Mul(principal, propertyTaxRateNum), FromInt(100))

\* line 97
MonthlyPropertyTax(yearlyPropertyTax) == Div(yearlyPropertyTax, FromInt(12))

\* line 98
TotalPropertyTax(yearlyPropertyTax, loanTermYearsNum) ==
  Mul(yearlyPropertyTax, loanTermYearsNum)

\* line 101: the string literal passed to parseFloat
MaintenanceLiteral == <<"3", ".", "0", "0">>

\* line 101
AnnualMaintenanceRate(principal, literal) ==
  Mul(principal, parseFloat(literal))

\* line 102
MonthlyMaintenanceRate(annualMaintenanceRate) ==
  Div(annualMaintenanceRate, FromInt(12))

\* the property tax term of line 109 left out
TotalMonthlyPayment_NoTax(monthlyPayment, monthlyPmi, monthlyInsurance, monthlyPropertyTax, monthlyMaintenanceRate) ==
  Add(Add(Add(monthlyPayment, monthlyPmi), monthlyInsurance),
      monthlyMaintenanceRate)

\* the maintenance term of line 110 left out
TotalMonthlyPayment_NoMaintenance(monthlyPayment, monthlyPmi, monthlyInsurance, monthlyPropertyTax, monthlyMaintenanceRate) ==
  Add(Add(Add(monthlyPayment, monthlyPmi), monthlyInsurance),
      monthlyPropertyTax)

\* lines 105-110
TotalMonthlyPayment(monthlyPayment, monthlyPmi, monthlyInsurance, monthlyPropertyTax, monthlyMaintenanceRate) ==
  Add(Add(Add(Add(monthlyPayment, monthlyPmi), monthlyInsurance),
          monthlyPropertyTax), monthlyMaintenanceRate)

\* the property tax term of line 112 left out
TotalCost_NoTax(totalPrincipalAndInterest, totalPmi, totalInsurance, totalPropertyTax) ==
  Add(Add(totalPrincipalAndInterest, totalPmi), totalInsurance)

\* line 112
TotalCost(totalPrincipalAndInterest, totalPmi, totalInsurance, totalPropertyTax) ==
  Add(Add(Add(totalPrincipalAndInterest, totalPmi), totalInsurance),
      totalPropertyTax)

\* lines 94-126: the result, from the monthly figures and the totals
Breakdown(principal, monthlyPayment, monthlyPmi, monthlyInsurance, yearlyPropertyTax, monthlyPropertyTax, monthlyMaintenanceRate, totalPrincipalAndInterest, totalPmi, totalInsurance, totalPropertyTax) ==
  [mortgagePayment |-> monthlyPayment,
   totalInterest |-> TotalInterest(totalPrincipalAndInterest, principal),
   totalPmi |-> totalPmi,
   totalInsurance |-> totalInsurance,
   totalMonthlyPayment |->
     TotalMonthlyPayment(monthlyPayment, monthlyPmi, monthlyInsurance,
                         monthlyPropertyTax, monthlyMaintenanceRate),
   totalCost |-> TotalCost(totalPrincipalAndInterest, totalPmi,
                           totalInsurance, totalPropertyTax),
   yearlyPropertyTax |-> yearlyPropertyTax,
   monthlyPropertyTax |-> monthlyPropertyTax,
   monthlyInsurance |-> monthlyInsurance,
   monthlyPmi |-> monthlyPmi,
   totalPropertyTax |-> totalPropertyTax]

\* lines 88-98: the lifetime totals and the monthly property tax
Totals(principal, loanTermYearsNum, numberOfPayments, monthlyPayment, monthlyPmi, monthlyInsurance, yearlyPropertyTax, monthlyMaintenanceRate) ==
  Breakdown(principal, monthlyPayment, monthlyPmi, monthlyInsurance,
            yearlyPropertyTax, MonthlyPropertyTax(yearlyPropertyTax),
            monthlyMaintenanceRate,
            LifetimeTotal(monthlyPayment, numberOfPayments),
            LifetimeTotal(monthlyPmi, numberOfPayments),
            LifetimeTotal(monthlyInsurance, numberOfPayments),
            TotalPropertyTax(yearlyPropertyTax, loanTermYearsNum))

\* The body of getTrueCostsOfHome with the maintenance literal of line 101
\* as a parameter: lines 57-102, the parsed rates and the monthly figures.
TrueCostsWith(inputs, literal) ==
  Totals(inputs.principal,
         ToNumber(inputs.loanTermYears),
         NumberOfPayments(inputs.loanTermYears),
         getMonthlyMortgage([principal |-> inputs.principal,
                             interestRate |-> inputs.interestRate,
                             loanTermYears |-> inputs.loanTermYears]).monthlyPayment,
         MonthlyPmi(inputs.principal, parseFloat(inputs.pmiRate)),
         MonthlyInsurance(AnnualInsurance(inputs.principal,
                                          parseFloat(inputs.insuranceRate))),
         YearlyPropertyTax(inputs.principal, parseFloat(inputs.propertyTaxRate)),
         MonthlyMaintenanceRate(AnnualMaintenanceRate(inputs.principal, literal)))

getTrueCostsOfHome(inputs) == TrueCostsWith(inputs, MaintenanceLiteral)

(***************************************************************************)
(* getPropertyTaxByState (mortgage.ts 129-136)                             *)
(***************************************************************************)
RateField == "Effective Tax Rate (2023)"

Row(state, rate) ==
  [f \in {"State", RateField} |-> IF f = "State" THEN state ELSE rate]

\* rates.json (line 1): one row per state, here three of them
RatesJson ==
  << Row("Alabama", <<"0", ".", "4", "1">>),
     Row("Alaska", <<"1", ".", "2", "2">>),
     Row("Wyoming", <<"0", ".", "6", "1">>) >>

Undefined == <<"undefined">>

\* Array.prototype.find: index of the first row the predicate accepts,
\* 0 when there is none
RECURSIVE FindFrom(_, _, _)
FindFrom(table, state, i) ==
  IF i > Len(table) THEN 0
  ELSE IF table[i]["State"] = state THEN i
  ELSE FindFrom(table, state, i + 1)

\* the found row taken out of the array (a splice in place of find)
TableAfterFind_Splice(table, state) ==
  LET i == FindFrom(table, state, 1)
  IN IF i = 0 THEN table
     ELSE SubSeq(table, 1, i - 1) \o SubSeq(table, i + 1, Len(table))

\* line 130: find leaves the array as it is
TableAfterFind(table, state) == table

\* the check of line 133 left out: undefined is returned
getPropertyTaxByState_NoThrow(table, state) ==
  LET i == FindFrom(table, state, 1)
      rate == IF i = 0 THEN Undefined ELSE table[i][RateField]
  IN [st |-> "returned", val |-> [value |-> rate]]

\* lines 130-135: the outcome of the call
getPropertyTaxByState(table, state) ==
  LET i == FindFrom(table, state, 1)
      rate == IF i = 0 THEN Undefined ELSE table[i][RateField]
  IN IF rate = Undefined
     THEN [st |-> "thrown", val |-> [message |-> "Could not find state? Huh??"]]
     ELSE [st |-> "returned", val |-> [value |-> rate]]

(***************************************************************************)
(* Inputs                                                                  *)
(***************************************************************************)
Principals == {FromInt(1000), FromInt(300000)}

\* interest rate strings: usual, small, none at all, not a number
InterestRates ==
  { <<"4", ".", "5">>, <<"1", "2">>, <<"0", ".", "0", "1">>,
    <<"0">>, <<"x">> }

Terms == {FromInt(t) : t \in (1 .. MaxTerm) \cup {30}}

PmiRates == { <<"0", ".", "5">>, <<"0">> }

\* with 0.4 the order of the operations of line 75 shows in the last bit
InsuranceRates == { <<"0", ".", "3", "5">>, <<"0", ".", "4">> }

PropertyTaxRateStrings == { <<"0", ".", "3", "5">>, <<"1", ".", "2", "2">> }

StateNames == {"Alabama", "alabama", "AL", "Alaska", "Wyoming", "Atlantis"}

MortgageInputs ==
  [principal : Principals, interestRate : InterestRates, loanTermYears : Terms]

Inputs ==
  [principal : Principals, interestRate : InterestRates, loanTermYears : Terms,
   pmiRate : PmiRates, insuranceRate : InsuranceRates,
   propertyTaxRate : PropertyTaxRateStrings]

Calls ==
  [fn : {"getMonthlyMortgage"}, args : MortgageInputs]
  \cup [fn : {"getTrueCostsOfHome"}, args : Inputs]
  \cup [fn : {"getPropertyTaxByState"}, args : [state : StateNames]]

Pending == [st |-> "pending", val |-> [none |-> TRUE]]

Returned(v) == [st |-> "returned", val |-> v]

NoEarlier == [call |-> [fn |-> "none"], ret |-> Pending, since |-> {}]

(***************************************************************************)
(* The form of the calculator page (part_001 40-309).  A field value is a  *)
(* number (the defaults of principal and loanTerm) or a string (the other  *)
(* defaults, and whatever an input element reports after an edit).         *)
(***************************************************************************)
\* largest number of fraction digits Number.prototype.toString is tried with
MaxFractionDigits == 3

Num(v) == [t |-> "number", v |-> v]

Str(s) == [t |-> "string", v |-> s]

AtMost(a, b) == ~IsNaN(a) /\ ~IsNaN(b) /\ ~Greater(a, b)

SignLen(str) == IF Len(str) >= 1 /\ str[1] \in {"+", "-"} THEN 1 ELSE 0

\* position of the last character of the decimal literal whose digits start
\* at i0 and whose integer part has ni digits
LiteralEnd(str, i0, ni) ==
  IF i0 + ni <= Len(str) /\ str[i0 + ni] = "."
  THEN i0 + ni + DigitRun(str, i0 + ni + 1)
  ELSE i0 + ni - 1

\* the whole string is one decimal literal
IsNumericLiteral(str) ==
  /\ ~IsNaN(parseFloat(str))
  /\ LiteralEnd(str, SignLen(str) + 1, DigitRun(str, SignLen(str) + 1)) = Len(str)

\* Number(string), for strings without white space and exponent part: the
\* empty string is 0, a string that is not wholly a literal is NaN
StringToNumber(str) ==
  IF Len(str) = 0 THEN Zero
  ELSE IF IsNumericLiteral(str) THEN parseFloat(str)
  ELSE NaN

\* the conversion to a number that z.coerce.number(), Number() and the
\* arithmetic operators apply to a field value
ToNumberOf(x) == IF x.t = "number" THEN x.v ELSE StringToNumber(x.v)

\* Number.prototype.toString: the shortest decimal that reads back as v
DigitChars == <<"0", "1", "2", "3", "4", "5", "6", "7", "8", "9">>

DigitChar(d) == DigitChars[d + 1]

RECURSIVE DecimalDigits(_)
DecimalDigits(n) ==
  IF n < 10 THEN <<DigitChar(n)>>
  ELSE DecimalDigits(n \div 10) \o <<DigitChar(n % 10)>>

RECURSIVE PaddedDigits(_, _)
PaddedDigits(n, k) ==
  IF k = 0 THEN <<>> ELSE PaddedDigits(n \div 10, k - 1) \o <<DigitChar(n % 10)>>

FormatDecimal(n, k) ==
  IF k = 0 THEN DecimalDigits(n)
  ELSE DecimalDigits(n \div 10^k) \o <<".">> \o PaddedDigits(n % 10^k, k)

\* the integer nearest to v * 10^k, v finite and not negative
ScaledInt(v, k) ==
  IF v.e >= 0 THEN v.m * 2^v.e * 10^k
  ELSE (v.m * 10^k + 2^(-v.e - 1)) \div 2^(-v.e)

RECURSIVE FractionDigits(_, _)
FractionDigits(v, k) ==
  IF k >= MaxFractionDigits \/ RoundRat(1, ScaledInt(v, k), 10^k, 0) = v THEN k
  ELSE FractionDigits(v, k + 1)

FormatShortest(v, k) == FormatDecimal(ScaledInt(v, k), k)

NumberToString(v) ==
  IF IsNaN(v) THEN <<"N", "a", "N">>
  ELSE IF v.k = "inf"
       THEN (IF v.m < 0 THEN <<"-">> ELSE <<>>)
              \o <<"I", "n", "f", "i", "n", "i", "t", "y">>
  ELSE IF v.m < 0 THEN <<"-">> \o FormatShortest(Abs(v), FractionDigits(Abs(v), 0))
  ELSE FormatShortest(v, FractionDigits(v, 0))

\* formSchema (part_001 40-76)
\* lines 41-44: coerced to a number, positive, at least 1000
PrincipalNumberOk(n) ==
  ~IsNaN(n) /\ Greater(n, Zero) /\ AtMost(FromInt(1000), n)

PrincipalOk(x) == PrincipalNumberOk(ToNumberOf(x))

\* lines 45-51: a string whose parseFloat is positive and at most 30
InterestNumberOk(p) ==
  ~IsNaN(p) /\ Greater(p, Zero) /\ AtMost(p, FromInt(30))

InterestRateOk(x) == x.t = "string" /\ InterestNumberOk(parseFloat(x.v))

\* lines 52-56: coerced to a number, an integer, positive, at most 50
LoanTermNumberOk(n) ==
  ~IsNaN(n) /\ IsInteger(n) /\ Greater(n, Zero) /\ AtMost(n, FromInt(50))

LoanTermOk(x) == LoanTermNumberOk(ToNumberOf(x))

\* lines 57-75: a string whose parseFloat is not NaN and not negative
RateNumberOk(p) == ~IsNaN(p) /\ AtMost(Zero, p)

RateOk(x) == x.t = "string" /\ RateNumberOk(parseFloat(x.v))

\* line 69
StateOk(x) == x.t = "string"

FieldNames ==
  {"principal", "interestRate", "loanTerm", "pmiRate", "insuranceRate",
   "state", "propertyTaxRate"}

FieldOk(name, x) ==
  CASE name = "principal" -> PrincipalOk(x)
    [] name = "interestRate" -> InterestRateOk(x)
    [] name = "loanTerm" -> LoanTermOk(x)
    [] name = "state" -> StateOk(x)
    [] OTHER -> RateOk(x)

\* formSchema accepts the values
SchemaAccepts(values) == \A name \in FieldNames : FieldOk(name, values[name])

\* defaultValues (part_001 94-102)
DefaultValues ==
  [principal |-> Num(FromInt(300000)),
   interestRate |-> Str(<<"4", ".", "5">>),
   loanTerm |-> Num(FromInt(30)),
   pmiRate |-> Str(<<"0", ".", "5">>),
   insuranceRate |-> Str(<<"0", ".", "3", "5">>),
   state |-> Str("Alabama"),
   propertyTaxRate |-> Str(<<"0", ".", "3", "5">>)]

\* useState(false) and useForm (part_001 91-104)
DefaultForm == [values |-> DefaultValues, errors |-> {}, showStates |-> FALSE]

(***************************************************************************)
(* One call: the arguments are drawn in the initial state and the call     *)
(* runs to completion in one step (the functions are synchronous).         *)
(***************************************************************************)
Init ==
  /\ propertyTaxRates = RatesJson
  /\ call \in Calls
  /\ ret = Pending
  /\ earlier = NoEarlier
  /\ form = DefaultForm

RunGetMonthlyMortgage ==
  /\ call.fn = "getMonthlyMortgage"
  /\ ret.st = "pending"
  /\ ret' = Returned(getMonthlyMortgage(call.args))
  /\ UNCHANGED <<propertyTaxRates, call, earlier, form>>

RunGetTrueCostsOfHome ==
  /\ call.fn = "getTrueCostsOfHome"
  /\ ret.st = "pending"
  /\ ret' = Returned(getTrueCostsOfHome(call.args))
  /\ UNCHANGED <<propertyTaxRates, call, earlier, form>>

RunGetPropertyTaxByState ==
  /\ call.fn = "getPropertyTaxByState"
  /\ ret.st = "pending"
  /\ ret' = getPropertyTaxByState(propertyTaxRates, call.args.state)
  /\ propertyTaxRates' = TableAfterFind(propertyTaxRates, call.args.state)
  /\ UNCHANGED <<call, earlier, form>>

Next ==
  \/ RunGetMonthlyMortgage
  \/ RunGetTrueCostsOfHome
  \/ RunGetPropertyTaxByState

Spec == Init /\ [][Next]_vars

(***************************************************************************)
(* A sequence of calls: any of the three functions, again and again.  An   *)
(* earlier call and its outcome are remembered together with the names of  *)
(* the functions called after it (the current call included).              *)
(***************************************************************************)
FunctionNames ==
  {"getMonthlyMortgage", "getTrueCostsOfHome", "getPropertyTaxByState"}

SeqInputs ==
  {i \in Inputs :
     /\ i.principal = FromInt(300000)
     /\ i.loanTermYears = FromInt(30)
     /\ i.interestRate \in { <<"4", ".", "5">>, <<"0">>, <<"0", ".", "0", "1">> }
     /\ i.pmiRate = <<"0", ".", "5">>
     /\ i.insuranceRate = <<"0", ".", "3", "5">>}

SeqMortgageInputs ==
  {i \in MortgageInputs :
     /\ i.principal = FromInt(300000)
     /\ i.loanTermYears = FromInt(30)
     /\ i.interestRate \in { <<"4", ".", "5">>, <<"0">> }}

SeqStateNames == {"Alabama", "Wyoming", "Atlantis"}

InitCalls ==
  /\ propertyTaxRates = RatesJson
  /\ call = [fn |-> "none"]
  /\ ret = Pending
  /\ earlier = NoEarlier
  /\ form = DefaultForm

\* the remembered call is kept, or replaced by the call that just ended
Remember ==
  \/ /\ earlier = NoEarlier
     /\ earlier' = earlier
  \/ /\ earlier # NoEarlier
     /\ earlier' = [earlier EXCEPT !.since = @ \cup {call'.fn}]
  \/ /\ call.fn # "none"
     /\ earlier' = [call |-> call, ret |-> ret, since |-> {call'.fn}]

InvokeGetMonthlyMortgage ==
  \E a \in SeqMortgageInputs :
    /\ call' = [fn |-> "getMonthlyMortgage", args |-> a]
    /\ ret' = Returned(getMonthlyMortgage(a))
    /\ UNCHANGED <<propertyTaxRates, form>>
    /\ Remember

InvokeGetTrueCostsOfHome ==
  \E a \in SeqInputs :
    /\ call' = [fn |-> "getTrueCostsOfHome", args |-> a]
    /\ ret' = Returned(getTrueCostsOfHome(a))
    /\ UNCHANGED <<propertyTaxRates, form>>
    /\ Remember

InvokeGetPropertyTaxByState ==
  \E s \in SeqStateNames :
    /\ call' = [fn |-> "getPropertyTaxByState", args |-> [state |-> s]]
    /\ ret' = getPropertyTaxByState(propertyTaxRates, s)
    /\ propertyTaxRates' = TableAfterFind(propertyTaxRates, s)
    /\ UNCHANGED form
    /\ Remember

NextCalls ==
  \/ InvokeGetMonthlyMortgage
  \/ InvokeGetTrueCostsOfHome
  \/ InvokeGetPropertyTaxByState

SpecCalls == InitCalls /\ [][NextCalls]_vars

(***************************************************************************)
(* The calculator page: every render of Results (part_001 299-309) calls   *)
(* getTrueCostsOfHome with the values form.watch reports.  A step is one   *)
(* event handler together with the render it causes.                       *)
(***************************************************************************)
\* the labels of usStates (part_001 267-271): the states of the table
UsStates == {RatesJson[i]["State"] : i \in 1 .. Len(RatesJson)}

InputFields == FieldNames \ {"state"}

\* what the input elements report after an edit
TypedValues(name) ==
  CASE name = "principal" -> { <<"2", "0", "0", "0">>, <<"5", "0", "0">> }
    [] name = "interestRate" -> { <<"4", ".", "5">>, <<"0">>, <<"3", "1">> }
    [] name = "loanTerm" -> { <<"1", "5">>, <<"0">> }
    [] name = "pmiRate" -> { <<"0", ".", "5">>, <<"-", "1">> }
    [] name = "insuranceRate" -> { <<"0", ".", "3", "5">>, <<>> }
    [] name = "propertyTaxRate" -> { <<"0", ".", "3", "5">>, <<"-", "1">> }

\* part_001 302-309: the argument of getTrueCostsOfHome, principal and
\* loanTermYears as the numbers its arithmetic (mortgage.ts 42-101) reads
WatchedInputs(values) ==
  [principal |-> ToNumberOf(values.principal),
   interestRate |-> values.interestRate.v,
   loanTermYears |-> ToNumberOf(values.loanTerm),
   pmiRate |-> values.pmiRate.v,
   propertyTaxRate |-> values.propertyTaxRate.v,
   insuranceRate |-> values.insuranceRate.v]

\* part_001 302-309
ResultsRender(values) ==
  /\ call' = [fn |-> "getTrueCostsOfHome", args |-> WatchedInputs(values)]
  /\ ret' = Returned(getTrueCostsOfHome(WatchedInputs(values)))

\* field.onChange under mode "onChange" (part_001 103): the value is stored
\* as reported and the field's error is set or cleared by formSchema
ChangeField(frm, name, x) ==
  [frm EXCEPT !.values[name] = x,
              !.errors = IF FieldOk(name, x) THEN @ \ {name} ELSE @ \cup {name}]

\* form.setValue (part_001 253-258): the value is stored, nothing is validated
SetValue(frm, name, x) == [frm EXCEPT !.values[name] = x]

\* onValueChange of the Select (part_001 251-259) with the outcome of
\* getPropertyTaxByState: when it throws, setValue is not reached
AfterSelect(frm, label, outcome) ==
  IF outcome.st = "returned"
  THEN SetValue(ChangeField(frm, "state", Str(label)), "propertyTaxRate",
                Str(NumberToString(parseFloat(outcome.val.value))))
  ELSE ChangeField(frm, "state", Str(label))

InitForm ==
  /\ propertyTaxRates = RatesJson
  /\ form = DefaultForm
  /\ call = [fn |-> "getTrueCostsOfHome", args |-> WatchedInputs(DefaultValues)]
  /\ ret = Returned(getTrueCostsOfHome(WatchedInputs(DefaultValues)))
  /\ earlier = NoEarlier

\* an edit of one of the six inputs
FieldOnChange ==
  \E name \in InputFields : \E typed \in TypedValues(name) :
    /\ form' = ChangeField(form, name, Str(typed))
    /\ ResultsRender(form'.values)
    /\ UNCHANGED <<propertyTaxRates, earlier>>

\* the button "Help me find this?" (part_001 279-286)
ShowStatesClick ==
  /\ ~form.showStates
  /\ form' = [form EXCEPT !.showStates = TRUE]
  /\ ResultsRender(form'.values)
  /\ UNCHANGED <<propertyTaxRates, earlier>>

\* a choice in the Select of states (part_001 240-278)
SelectState ==
  /\ form.showStates
  /\ \E label \in UsStates :
       /\ form' = AfterSelect(form, label,
                              getPropertyTaxByState(propertyTaxRates, label))
       /\ propertyTaxRates' = TableAfterFind(propertyTaxRates, label)
       /\ ResultsRender(form'.values)
  /\ UNCHANGED earlier

NextForm ==
  \/ FieldOnChange
  \/ ShowStatesClick
  \/ SelectState

SpecForm == InitForm /\ [][NextForm]_vars

(***************************************************************************)
(* Properties                                                              *)
(***************************************************************************)
\* the call of fn has ended
Done(fn) == call.fn = fn /\ ret.st # "pending"

In == call.args

Out == ret.val

Twelve == FromInt(12)

Hundred == FromInt(100)

\* the same value, NaN included (Object.is up to the sign of zero)
Same(a, b) == a = b

\* relative tolerance of the comparisons "up to rounding": 2^(TolBits - Prec)
TolBits == 4

Tolerance == Fin(2^(Prec - 1), TolBits - Prec - (Prec - 1))

Larger(a, b) == IF Less(a, b) THEN b ELSE a

\* equal up to floating point rounding
ApproxEq(a, b) ==
  \/ StrictEq(a, b)
  \/ /\ IsFinite(a) /\ IsFinite(b)
     /\ ~Greater(Abs(Sub(a, b)), Mul(Tolerance, Larger(Abs(a), Abs(b))))

NonNegative(a) == ~IsNaN(a) /\ ~Less(a, Zero)

\* the inputs the form's schema lets through, as far as the core reads them
ValidInputs(i) ==
  /\ Greater(i.principal, Zero)
  /\ Greater(parseFloat(i.interestRate), Zero)
  /\ Greater(i.loanTermYears, Zero)
  /\ NonNegative(parseFloat(i.pmiRate))
  /\ NonNegative(parseFloat(i.insuranceRate))
  /\ NonNegative(parseFloat(i.propertyTaxRate))

\* C1: for valid inputs totalCost is totalPrincipalAndInterest + totalPmi +
\* totalInsurance + totalPropertyTax, with the totals being the monthly
\* payment, monthly PMI and monthly insurance times (term * 12) and the
\* yearly property tax times the term.
C1_TotalCostIsSumOfTotals ==
  (Done("getTrueCostsOfHome") /\ ValidInputs(In)) =>
    LET n == Mul(In.loanTermYears, Twelve)
        totalPrincipalAndInterest == Mul(Out.mortgagePayment, n)
    IN /\ StrictEq(Out.totalPmi, Mul(Out.monthlyPmi, n))
       /\ StrictEq(Out.totalInsurance, Mul(Out.monthlyInsurance, n))
       /\ StrictEq(Out.totalPropertyTax,
                   Mul(Out.yearlyPropertyTax, In.loanTermYears))
       /\ StrictEq(Out.totalCost,
                   Add(Add(Add(totalPrincipalAndInterest, Out.totalPmi),
                           Out.totalInsurance), Out.totalPropertyTax))

C1_Witness ==
  /\ Done("getTrueCostsOfHome") /\ ValidInputs(In)
  /\ IsFinite(Out.totalCost)
  /\ Greater(Out.totalPropertyTax, Zero)
  /\ Greater(Out.totalCost, Out.totalPropertyTax)

\* the five monthly components with the maintenance share given
SumOfFive(o, maintenance) ==
  Add(Add(Add(Add(o.mortgagePayment, o.monthlyPmi), o.monthlyInsurance),
          o.monthlyPropertyTax), maintenance)

\* C2: the maintenance estimate inside totalMonthlyPayment is 3% of the
\* principal per year, divided by 12: principal * 3 / 100 / 12.
C2_MaintenanceIsThreePercent ==
  Done("getTrueCostsOfHome") =>
    LET maintenance == Div(Div(Mul(In.principal, FromInt(3)), Hundred), Twelve)
    IN \/ Same(Out.totalMonthlyPayment, SumOfFive(Out, maintenance))
       \/ ApproxEq(Out.totalMonthlyPayment, SumOfFive(Out, maintenance))

\* C3: with an interest rate of exactly zero (P > 0, T > 0)
\* getMonthlyMortgage returns the finite value P / (T * 12).
C3_ZeroInterestPayment ==
  ( /\ Done("getMonthlyMortgage")
    /\ Greater(In.principal, Zero) /\ Greater(In.loanTermYears, Zero)
    /\ StrictEq(parseFloat(In.interestRate), Zero) ) =>
    /\ IsFinite(Out.monthlyPayment)
    /\ StrictEq(Out.monthlyPayment,
                Div(In.principal, Mul(In.loanTermYears, Twelve)))

\* C4: for principal, rate and term all positive the payment is positive and
\* finite, is P*i*(1+i)^n / ((1+i)^n - 1) with i = rate/100/12, n = term*12,
\* and payment * term * 12 is greater than the principal.
C4_PositiveFinitePayment ==
  ( /\ Done("getMonthlyMortgage")
    /\ Greater(In.principal, Zero) /\ Greater(In.loanTermYears, Zero)
    /\ Greater(parseFloat(In.interestRate), Zero) ) =>
    LET i == Div(Div(parseFloat(In.interestRate), Hundred), Twelve)
        n == Mul(In.loanTermYears, Twelve)
        x == Math_pow(Add(FromInt(1), i), n)
    IN /\ IsFinite(Out.monthlyPayment)
       /\ Greater(Out.monthlyPayment, Zero)
       /\ ApproxEq(Out.monthlyPayment,
                   Div(Mul(Mul(In.principal, i), x), Sub(x, FromInt(1))))
       /\ Greater(Mul(Mul(Out.monthlyPayment, In.loanTermYears), Twelve),
                  In.principal)

\* the monthly maintenance figure of lines 101-102
MaintenanceOf(principal) ==
  MonthlyMaintenanceRate(AnnualMaintenanceRate(principal, MaintenanceLiteral))

\* C5: totalMonthlyPayment is the sum of exactly five monthly components:
\* principal and interest, PMI, insurance, property tax and the maintenance
\* figure the function computes.
C5_TotalMonthlyIsSumOfFive ==
  Done("getTrueCostsOfHome") =>
    Same(Out.totalMonthlyPayment, SumOfFive(Out, MaintenanceOf(In.principal)))

C5_Witness ==
  /\ Done("getTrueCostsOfHome")
  /\ IsFinite(Out.totalMonthlyPayment)
  /\ Greater(Out.monthlyPmi, Zero)
  /\ Greater(Out.monthlyInsurance, Zero)
  /\ Greater(Out.monthlyPropertyTax, Zero)
  /\ Greater(Out.mortgagePayment, Zero)

\* C6: getPropertyTaxByState returns the stored rate of the row whose State
\* is exactly the argument, raises an error when no row matches, and leaves
\* the table as it was.
C6_LookupExactOrThrow ==
  Done("getPropertyTaxByState") =>
    LET matches == {i \in 1 .. Len(RatesJson) :
                      RatesJson[i]["State"] = In.state}
    IN /\ matches # {} =>
            \E i \in matches : ret = Returned([value |-> RatesJson[i][RateField]])
       /\ matches = {} => ret.st = "thrown"
       /\ propertyTaxRates = RatesJson

C6_Witness ==
  /\ Done("getPropertyTaxByState")
  /\ In.state = "alabama"
  /\ ret.st = "thrown"
  /\ propertyTaxRates = RatesJson

\* C7: totalInterest is totalPrincipalAndInterest (monthly payment times
\* term * 12) minus the principal.
C7_TotalInterest ==
  Done("getTrueCostsOfHome") =>
    Same(Out.totalInterest,
         Sub(Mul(Out.mortgagePayment, Mul(In.loanTermYears, Twelve)),
             In.principal))

C7_Witness ==
  /\ Done("getTrueCostsOfHome")
  /\ IsFinite(Out.totalInterest)
  /\ Greater(Out.totalInterest, Zero)

\* principal * rate / 100 / 12
FlatShare(principal, rate) ==
  Div(Div(Mul(principal, parseFloat(rate)), Hundred), Twelve)

ExampleInputs(i) ==
  /\ i.principal = FromInt(300000)
  /\ i.pmiRate = <<"0", ".", "5">>
  /\ i.insuranceRate = <<"0", ".", "3", "5">>
  /\ i.propertyTaxRate = <<"0", ".", "3", "5">>

\* C8: monthly PMI, insurance and property tax are each principal * rate /
\* 100 / 12 for that component's rate (up to rounding where the function
\* orders the operations differently), whatever the interest rate and the
\* term; 300000 with 0.5, 0.35, 0.35 gives 125, 87.5, 87.5.
C8_FlatMonthlyShares ==
  Done("getTrueCostsOfHome") =>
    /\ Same(Out.monthlyPmi, FlatShare(In.principal, In.pmiRate))
    /\ ApproxEq(Out.monthlyInsurance, FlatShare(In.principal, In.insuranceRate))
    /\ Same(Out.monthlyPropertyTax, FlatShare(In.principal, In.propertyTaxRate))
    /\ ExampleInputs(In) =>
         /\ ApproxEq(Out.monthlyPmi, FromInt(125))
         /\ ApproxEq(Out.monthlyInsurance, Div(FromInt(175), FromInt(2)))
         /\ ApproxEq(Out.monthlyPropertyTax, Div(FromInt(175), FromInt(2)))

C8_Witness ==
  /\ Done("getTrueCostsOfHome")
  /\ ExampleInputs(In)
  /\ StrictEq(Out.monthlyPmi, FromInt(125))
  /\ parseFloat(In.interestRate) = Zero

MaintenanceLiterals == {MaintenanceLiteral, <<"0">>, <<"1">>, <<"0", ".", "0", "3">>}

\* C10: for valid inputs totalCost is the same whatever the maintenance
\* estimate, and totalMonthlyPayment * (term*12) is totalCost plus monthly
\* maintenance * (term*12), up to rounding.
C10_MaintenanceOnlyInMonthly ==
  (Done("getTrueCostsOfHome") /\ ValidInputs(In)) =>
    LET n == Mul(In.loanTermYears, Twelve)
    IN /\ \A lit \in MaintenanceLiterals :
            Same(TrueCostsWith(In, lit).totalCost, Out.totalCost)
       /\ ApproxEq(Mul(Out.totalMonthlyPayment, n),
                   Add(Out.totalCost, Mul(MaintenanceOf(In.principal), n)))

C10_Witness ==
  /\ Done("getTrueCostsOfHome") /\ ValidInputs(In)
  /\ IsFinite(Out.totalMonthlyPayment)
  /\ Greater(MaintenanceOf(In.principal), Zero)
  /\ Greater(Mul(Out.totalMonthlyPayment, Mul(In.loanTermYears, Twelve)),
             Out.totalCost)

\* C11: every call of getTrueCostsOfHome that Results makes has inputs the
\* form's schema accepts: principal >= 1000, 0 < interest rate <= 30, an
\* integer term in 1..50, and PMI, insurance and property tax rates that
\* parse and are not negative.
C11_ResultsInputsValid ==
  (call.fn = "getTrueCostsOfHome" /\ call.args = WatchedInputs(form.values)) =>
    SchemaAccepts(form.values)

=============================================================================
